---- MODULE Spec2Model ----
(***************************************************************************)
(* Model of packages/gatsby/src/utils/start-server.ts: the express         *)
(* middleware chain set up by startServer, and the render-failure          *)
(* diagnostics (getPosition, parseError).                                  *)
(*                                                                         *)
(* JavaScript strings are sequences of one-character strings.  The value   *)
(* undefined and the number NaN are modelled explicitly.                   *)
(***************************************************************************)
EXTENDS Integers, Sequences, FiniteSets, TLC

VARIABLES
    err,        \* decoding: the failure object handed to parseError
    position,   \* decoding: result of getPosition, or NoResult
    diag,       \* decoding: result of parseError, or NoResult
    env,        \* process.env: ENABLE_GATSBY_REFRESH_ENDPOINT, GATSBY_REFRESH_TOKEN
    proxy,      \* store.getState().config.proxy, read once by startServer
    pages,      \* store.getState().pages: the known page paths
    composer,   \* store.getState().schemaCustomization.composer exists
    req,        \* per request slot: the inbound request
    pc,         \* per request slot: where its handling stands
    owner,      \* per request slot: the handler that claimed it
    res,        \* per request slot: the response written so far
    outbound,   \* per request slot: the upstream requests made by the proxy
    upstream,   \* per request slot: what the upstream stream emitted
    jobs,       \* per request slot: paths submitted to renderHTML
    emitted,    \* per request slot: WEBHOOK_RECEIVED emissions
    timer,      \* per request slot: the htmlActivity timer
    alive       \* the server process is running

vars == <<err, position, diag, env, proxy, pages, composer, req, pc, owner,
          res, outbound, upstream, jobs, emitted, timer, alive>>

decodeVars == <<err, position, diag>>
serverVars == <<env, proxy, pages, composer, req, pc, owner, res, outbound,
                upstream, jobs, emitted, timer, alive>>

----------------------------------------------------------------------------
(* JavaScript values *)

\* undefined, where a string is expected: no one-character string equals it
Undefined == <<"undefined">>

\* a JavaScript number: NaN, or an integer
NaN == [nan |-> TRUE, n |-> 0]
Num(k) == [nan |-> FALSE, n |-> k]

Digits == {"0", "1", "2", "5"}

DigitVal(c) == CASE c = "0" -> 0 [] c = "1" -> 1 [] c = "2" -> 2 [] c = "5" -> 5

RECURSIVE DecimalValue(_)
DecimalValue(s) ==
    IF Len(s) = 0 THEN 0
    ELSE 10 * DecimalValue(SubSeq(s, 1, Len(s) - 1)) + DigitVal(s[Len(s)])

\* Number(x) for x undefined or a string over the model's characters:
\* undefined is NaN, the empty string is 0, a digit string is its value,
\* anything else is NaN
Number(s) ==
    IF s = Undefined THEN NaN
    ELSE IF \A i \in 1..Len(s) : s[i] \in Digits THEN Num(DecimalValue(s))
    ELSE NaN

\* x ? ... : ... for a string-or-undefined x
Truthy(s) == s # Undefined /\ s # <<>>

RECURSIVE SplitFrom(_, _, _, _)
SplitFrom(s, sep, i, cur) ==
    IF i > Len(s) THEN <<cur>>
    ELSE IF s[i] = sep THEN <<cur>> \o SplitFrom(s, sep, i + 1, <<>>)
    ELSE SplitFrom(s, sep, i + 1, Append(cur, s[i]))

\* String.prototype.split with a one-character separator
Split(s, sep) == SplitFrom(s, sep, 1, <<>>)

\* arr[i] with JavaScript's 0-based index: undefined outside the array
At(arr, i) == IF i >= 0 /\ i < Len(arr) THEN arr[i + 1] ELSE Undefined

----------------------------------------------------------------------------
(* The project directory as readFileSync sees it *)

\* lines of every source file of the modelled project
SourceLines == 12

\* files under program.directory, by the path below it, with their line count
ProjectFiles == [p \in { << <<"a">> >>, << <<"a">>, <<"a">> >> } |-> SourceLines]

IsFile(p) == p \in DOMAIN ProjectFiles

IsDirectory(p) ==
    \E f \in DOMAIN ProjectFiles : Len(f) > Len(p) /\ SubSeq(f, 1, Len(p)) = p

----------------------------------------------------------------------------
(* getPosition *)

\* /\(.+?\)$/.test(s): s ends in ")" and holds a "(" with a character between
HasCallSite(s) ==
    /\ Len(s) >= 3
    /\ s[Len(s)] = ")"
    /\ \E i \in 1..(Len(s) - 2) : s[i] = "("

\* s.match(/(?:\()(.+?)(?:\))$/)[1]: the match starts at the leftmost "(" and
\* the lazy group is stretched to the ")" that ends the string
CallSite(s) ==
    LET open == CHOOSE i \in 1..(Len(s) - 2) :
                    /\ s[i] = "("
                    /\ \A j \in 1..(i - 1) : s[j] # "("
    IN  SubSeq(s, open + 1, Len(s) - 1)

\* the split line getPosition reads its three tokens from
SplitLine(stackObject) ==
    LET filteredStack == SelectSeq(stackObject, HasCallSite)
    IN  IF Len(filteredStack) > 0
        THEN Split(CallSite(filteredStack[1]), ":")
        ELSE Split(stackObject[1], ":")

\* what the try block raises on: stackObject[0] is undefined
StackParseThrows(stackObject) ==
    Len(SelectSeq(stackObject, HasCallSite)) = 0 /\ Len(stackObject) = 0

\* getPosition with its three indices one too high
getPositionShifted(stackObject) ==
    LET splitLine == SplitLine(stackObject)
        splitLength == Len(splitLine)
    IN  [filename |-> At(splitLine, splitLength - 2),
         line |-> Number(At(splitLine, splitLength - 1)),
         row |-> Number(At(splitLine, splitLength))]

getPosition(stackObject) ==
    IF StackParseThrows(stackObject)
    THEN [filename |-> <<>>, line |-> Num(0), row |-> Num(0)]
    ELSE LET splitLine == SplitLine(stackObject)
             splitLength == Len(splitLine)
         IN  [filename |-> At(splitLine, splitLength - 3),
              line |-> Number(At(splitLine, splitLength - 2)),
              row |-> Number(At(splitLine, splitLength - 1))]

----------------------------------------------------------------------------
(* parseError *)

\* path.join(directory, ...segments), as the path below directory: empty
\* segments vanish in normalisation
JoinUnderDirectory(segments) == SelectSeq(segments, LAMBDA seg : seg # <<>>)

\* arr.slice(2)
Slice2(arr) == IF Len(arr) <= 2 THEN <<>> ELSE SubSeq(arr, 3, Len(arr))

NoFrame == [marked |-> FALSE, line |-> 0, column |-> 0]

\* codeFrameColumns(code, {start: {line, column}}): the excerpt marks the
\* start position when that line is a line of the code
codeFrameColumns(nLines, startLine, startColumn) ==
    IF /\ ~startLine.nan
       /\ startLine.n >= 1
       /\ startLine.n <= nLines
    THEN [marked |-> TRUE, line |-> startLine.n,
          column |-> IF startColumn.nan THEN 0 ELSE startColumn.n]
    ELSE NoFrame

\* the first line of err.message
FirstMessageLine(message) ==
    LET splitMessage == IF Truthy(message) THEN Split(message, "\n") ELSE << <<>> >>
    IN  splitMessage[1]

\* the last line of err.message
LastMessageLine(message) ==
    LET splitMessage == IF Truthy(message) THEN Split(message, "\n") ELSE << <<>> >>
    IN  splitMessage[Len(splitMessage)]

Raised(kind) ==
    [raised |-> kind, filename |-> <<>>, code |-> FALSE, codeFrame |-> NoFrame,
     line |-> NaN, row |-> NaN, message |-> <<>>, stack |-> <<>>]

\* parseError(err): the data it returns, or what it raises
parseError(e) ==
    LET stack == IF Truthy(e.stack) THEN e.stack ELSE <<>>
        stackObject == Split(stack, "\n")
        pos == getPosition(stackObject)
    IN  IF pos.filename = Undefined
        THEN Raised("TypeError")
        ELSE LET filename == JoinUnderDirectory(Slice2(Split(pos.filename, "/")))
             IN  IF ~IsFile(filename)
                 THEN Raised(IF filename = <<>> \/ IsDirectory(filename)
                             THEN "EISDIR" ELSE "ENOENT")
                 ELSE [raised |-> "none",
                       filename |-> filename,
                       code |-> TRUE,
                       codeFrame |-> codeFrameColumns(ProjectFiles[filename],
                                                      pos.row, pos.line),
                       line |-> pos.line,
                       row |-> pos.row,
                       message |-> LastMessageLine(e.message),
                       stack |-> stack]

----------------------------------------------------------------------------
(* Failure objects the decoding is exercised on *)

\* longest free-form stack line
MaxFreeLen == 4

FreeChar == {"(", ")", ":", "1"}

SeqsUpTo(S, n) == UNION {[1..k -> S] : k \in 0..n}

\* every line over FreeChar up to MaxFreeLen characters
FreeLines == SeqsUpTo(FreeChar, MaxFreeLen)

SitePrefixes == {<<>>, <<"a">>, <<"(">>}
SiteFiles == {<<"/", "a", "/", "a">>, <<"/", "a", "/", "1">>, <<"a">>}
SiteNumbers == {<<"1", "2">>, <<"5">>, <<"a">>}

\* lines ending in a call site: prefix(file:line:col)
SiteLines ==
    {pre \o <<"(">> \o f \o <<":">> \o l \o <<":">> \o c \o <<")">> :
        pre \in SitePrefixes, f \in SiteFiles, l \in SiteNumbers, c \in SiteNumbers}

Lines == FreeLines \cup SiteLines

\* err.stack: undefined, one line, or a line followed by a call-site line or
\* by a line of at most one character
Stacks ==
    {Undefined} \cup Lines \cup
    {a \o <<"\n">> \o b : a \in Lines, b \in SiteLines \cup SeqsUpTo(FreeChar, 1)}

\* err.message: undefined, empty, one line, two lines, a line and its newline
Messages == {Undefined, <<>>, <<"a">>, <<"a", "\n", "1">>, <<"a", "\n">>}

\* stacks of the failures the render worker raises in the server
\* specification: none, no call site, a call site in a project file, a call
\* site in a file that does not exist
RenderStacks ==
    {Undefined,
     <<"a">>,
     <<"a", "(", "/", "a", "/", "a", ":", "1", "2", ":", "5", ")">>,
     <<"a", "(", "/", "a", "/", "1", ":", "1", "2", ":", "5", ")">>}

RenderFailures == [stack : RenderStacks, message : {<<"a", "\n", "1">>}]

\* every stack with a one-line message, and the render stacks with every message
Failures ==
    [stack : Stacks, message : {<<"a">>}] \cup [stack : RenderStacks, message : Messages]

NoFailure == [stack |-> Undefined, message |-> Undefined]

----------------------------------------------------------------------------
(* The decoding on its own: getPosition and parseError applied to a failure *)

StackLines(e) == Split(IF Truthy(e.stack) THEN e.stack ELSE <<>>, "\n")

\* var position = getPosition(stackObject)
DecodePosition ==
    /\ position = <<>>
    /\ position' = <<getPosition(StackLines(err))>>
    /\ UNCHANGED <<err, diag>>
    /\ UNCHANGED serverVars

\* let error = parseError(e)
BuildDiagnostic ==
    /\ position # <<>>
    /\ diag = <<>>
    /\ diag' = <<parseError(err)>>
    /\ UNCHANGED <<err, position>>
    /\ UNCHANGED serverVars

----------------------------------------------------------------------------
(* Requests, configuration and route patterns *)

\* request slots handled concurrently
NumReq == 2

Reqs == 1..NumReq

\* an environment variable that is not set, a header that was not sent
EnvUnset == "<unset>"
NoHeader == "<none>"

\* JavaScript truthiness of an environment variable
EnvTruthy(v) == v # EnvUnset /\ v # ""

Secret == "s3cret"

RefreshPath == <<"__refresh">>
EditorPath == <<"__open-stack-frame-in-editor">>

\* first path segments matching /_+graphi?ql
GraphqlNames == {"___graphql", "_graphiql"}

\* last path segments matching /.*\.hot-update\.json$/i
HotUpdateNames == {"foo.hot-update.json", "x.HOT-UPDATE.JSON"}

About == <<"about">>
ApiUsers == <<"api", "users">>
ApiHotUpdate == <<"api", "users", "x.HOT-UPDATE.JSON">>

Paths ==
    {About, ApiUsers, <<"___graphql">>, RefreshPath, EditorPath,
     <<"foo.hot-update.json">>, ApiHotUpdate,
     <<"_graphiql", "foo.hot-update.json">>, <<"logo.png">>}

\* the paths below a proxy prefix
ProxiedPaths == {ApiUsers, ApiHotUpdate}

\* every path outside the proxy prefixes is requested with GET and no
\* Authorization header, and the route registered for POST with POST and each
\* kind of header; below the proxy prefixes one request is a GET that carries
\* an Authorization header and the other a POST that carries none
Requests ==
    {[path |-> p, method |-> "GET", host |-> "localhost:8000",
      authorization |-> NoHeader] : p \in Paths \ ProxiedPaths}
    \cup
    {[path |-> RefreshPath, method |-> "POST", host |-> "localhost:8000",
      authorization |-> a] : a \in {NoHeader, Secret, "wrong"}}
    \cup
    {[path |-> ApiUsers, method |-> "GET", host |-> "localhost:8000",
      authorization |-> Secret],
     [path |-> ApiHotUpdate, method |-> "POST", host |-> "localhost:8000",
      authorization |-> NoHeader]}

NoRequest ==
    [path |-> <<>>, method |-> "NONE", host |-> NoHeader, authorization |-> NoHeader]

\* the pages known when the server starts
InitialPages == {ApiUsers, <<"foo.hot-update.json">>}

\* paths the build layer registers and drops as pages while the server runs
PagePaths == {About}

\* files below public/
PublicFiles == {<<"logo.png">>}

\* config.proxy: the configured rules in order
ProxyRules ==
    <<[prefix |-> <<"api">>, url |-> "http://upstream.test"],
      [prefix |-> <<"api", "users">>, url |-> "http://users.test"]>>

Environments ==
    [enableRefresh : {EnvUnset, "true"}, refreshToken : {EnvUnset, Secret}]

\* the headers express writes for a response the server builds itself
OwnHeaders == "x-powered-by: Express"

NoResponse == [status |-> 0, body |-> "none", heads |-> 0, headers |-> "none"]

\* nothing emitted by the upstream stream yet
NoUpstream ==
    [event |-> "none", hasResponse |-> FALSE, statusCode |-> 0, headers |-> "none"]

\* app.get(graphqlEndpoint, ...): a route matches the whole path
GraphqlRouteMatches(path) == Len(path) = 1 /\ path[1] \in GraphqlNames

\* app.use(graphqlEndpoint, ...): a mount matches a path prefix
GraphqlMountMatches(path) == Len(path) >= 1 /\ path[1] \in GraphqlNames

\* app.use(`${prefix}/*`, ...)
RuleMatches(rule, path) ==
    /\ Len(path) > Len(rule.prefix)
    /\ SubSeq(path, 1, Len(rule.prefix)) = rule.prefix

\* app.use(/.*\.hot-update\.json$/i, ...)
HotUpdateMatches(path) == Len(path) >= 1 /\ path[Len(path)] \in HotUpdateNames

\* the hot-update guard registered first
ChainGuardFirst ==
    <<"hotUpdate", "explorer", "graphql", "refresh", "editor", "proxy",
      "render", "static">>

\* the render middleware registered before the proxy and the hot-update guard
ChainRenderEarly ==
    <<"explorer", "graphql", "refresh", "editor", "render", "proxy",
      "hotUpdate", "static">>

\* the handlers in the order startServer registers them
Chain ==
    <<"explorer", "graphql", "refresh", "editor", "proxy", "hotUpdate",
      "render", "static">>

\* whether handler h takes the request when the router reaches it
Matches(h, rq) ==
    CASE h = "explorer" -> rq.method = "GET" /\ GraphqlRouteMatches(rq.path)
      [] h = "graphql" -> GraphqlMountMatches(rq.path)
      [] h = "refresh" -> rq.method = "POST" /\ rq.path = RefreshPath
      [] h = "editor" -> rq.method = "GET" /\ rq.path = EditorPath
      [] h = "proxy" -> \E i \in 1..Len(proxy) : RuleMatches(proxy[i], rq.path)
      [] h = "hotUpdate" -> HotUpdateMatches(rq.path)
      [] h = "render" -> rq.path \in pages
      [] h = "static" -> TRUE

\* express's router: the first handler of the chain that takes the request
Claimant(rq) ==
    Chain[CHOOSE i \in 1..Len(Chain) :
              /\ Matches(Chain[i], rq)
              /\ \A j \in 1..(i - 1) : ~Matches(Chain[j], rq)]

\* request rq arrives in the free slot r and the router, which runs the chain
\* in one turn of the event loop, hands it to handler h
Takes(r, rq, h) ==
    /\ alive
    /\ pc[r] = "idle"
    /\ Claimant(rq) = h
    /\ req' = [req EXCEPT ![r] = rq]
    /\ owner' = [owner EXCEPT ![r] = h]

\* the server's own response: status, express's headers, and the body
Respond(r, status, body) ==
    res' = [res EXCEPT ![r] = [status |-> status, body |-> body,
                               heads |-> @.heads + 1, headers |-> OwnHeaders]]

\* res.writeHead(status, headers), the body being piped from upstream
WriteHead(r, status, headers) ==
    res' = [res EXCEPT ![r] = [status |-> status, body |-> "upstream",
                               heads |-> @.heads + 1, headers |-> headers]]

----------------------------------------------------------------------------
(* The middleware chain *)

\* app.get(graphqlEndpoint, ...): the GraphQL IDE page
GraphiqlExplorer(r) ==
    /\ \E rq \in Requests : Takes(r, rq, "explorer")
    /\ Respond(r, 200, "ide")
    /\ pc' = [pc EXCEPT ![r] = "done"]
    /\ UNCHANGED <<env, proxy, pages, composer, outbound, jobs, emitted,
                   timer, upstream, alive>>
    /\ UNCHANGED decodeVars

\* the options callback returning its options without looking for the composer
OptionsReadyAssumed(hasComposer) == TRUE

\* if (!schemaCustomization.composer) throw ...: whether the callback returns
OptionsReady(hasComposer) == hasComposer

\* app.use(graphqlEndpoint, graphqlHTTP(() => ...)): the options callback
\* throws when no schema composer exists, and graphqlHTTP answers with the error
DataApi(r) ==
    /\ \E rq \in Requests : Takes(r, rq, "graphql")
    /\ IF OptionsReady(composer)
       THEN Respond(r, 200, "data")
       ELSE Respond(r, 500, "errors")
    /\ pc' = [pc EXCEPT ![r] = "done"]
    /\ UNCHANGED <<env, proxy, pages, composer, outbound, jobs, emitted,
                   timer, upstream, alive>>
    /\ UNCHANGED decodeVars

\* the check without its "no token configured" alternative
authorizedRefreshStrict(rq) == rq.authorization = env.refreshToken

\* const authorizedRefresh = !refreshToken || req.headers.authorization === refreshToken
authorizedRefresh(rq) ==
    ~EnvTruthy(env.refreshToken) \/ rq.authorization = env.refreshToken

\* if (enableRefresh && authorizedRefresh) refresh(req): emissions of WEBHOOK_RECEIVED
RefreshEmissions(rq) ==
    IF EnvTruthy(env.enableRefresh) /\ authorizedRefresh(rq) THEN 1 ELSE 0

\* a reply that tells an unauthorized caller so
RefreshReplyGated(rq) == IF authorizedRefresh(rq) THEN 200 ELSE 401

\* res.end(): the status is left at its default
RefreshReply(rq) == 200

\* app.post(REFRESH_ENDPOINT, ...)
WebhookRefresh(r) ==
    /\ \E rq \in Requests :
          /\ Takes(r, rq, "refresh")
          /\ emitted' = [emitted EXCEPT ![r] = @ + RefreshEmissions(rq)]
          /\ Respond(r, RefreshReply(rq), "empty")
    /\ pc' = [pc EXCEPT ![r] = "done"]
    /\ UNCHANGED <<env, proxy, pages, composer, outbound, jobs, timer,
                   upstream, alive>>
    /\ UNCHANGED decodeVars

\* app.get(`/__open-stack-frame-in-editor`, ...)
EditorLaunch(r) ==
    /\ \E rq \in Requests : Takes(r, rq, "editor")
    /\ Respond(r, 200, "empty")
    /\ pc' = [pc EXCEPT ![r] = "done"]
    /\ UNCHANGED <<env, proxy, pages, composer, outbound, jobs, emitted,
                   timer, upstream, alive>>
    /\ UNCHANGED decodeVars

\* the last configured rule whose pattern matches the path
LastRule(path) ==
    proxy[CHOOSE i \in 1..Len(proxy) :
              /\ RuleMatches(proxy[i], path)
              /\ \A j \in (i + 1)..Len(proxy) : ~RuleMatches(proxy[j], path)]

\* the first configured rule whose handler takes the path
FirstRule(path) ==
    proxy[CHOOSE i \in 1..Len(proxy) :
              /\ RuleMatches(proxy[i], path)
              /\ \A j \in 1..(i - 1) : ~RuleMatches(proxy[j], path)]

\* got.stream(proxiedUrl, { headers, method, decompress: false }) with
\* proxiedUrl = url + req.originalUrl and host removed from the headers
ProxiedRequest(rq) ==
    [url |-> FirstRule(rq.path).url, path |-> rq.path, method |-> rq.method,
     host |-> NoHeader, authorization |-> rq.authorization]

\* app.use(`${prefix}/*`, ...): the handler of the first matching rule pipes
\* the request upstream and does not call next
ProxyForward(r) ==
    /\ \E rq \in Requests :
          /\ Takes(r, rq, "proxy")
          /\ outbound' = [outbound EXCEPT ![r] = Append(@, ProxiedRequest(rq))]
    /\ pc' = [pc EXCEPT ![r] = "proxying"]
    /\ UNCHANGED <<env, proxy, pages, composer, res, upstream, jobs, emitted,
                   timer, alive>>
    /\ UNCHANGED decodeVars

\* statuses an upstream answers with; 0 stands for a missing statusCode
UpstreamStatuses == {0, 404}

UpstreamHeaders == "content-type: application/json"

\* the response object an upstream event carries
UpstreamResponses ==
    [hasResponse : {TRUE}, statusCode : UpstreamStatuses, headers : {UpstreamHeaders}]

\* an `error` event that carries no response
TransportFailure == [hasResponse |-> FALSE, statusCode |-> 0, headers |-> "none"]

Emitted(event, response) ==
    [event |-> event, hasResponse |-> response.hasResponse,
     statusCode |-> response.statusCode, headers |-> response.headers]

\* the status written whatever the upstream sent
StatusIgnoringUpstream(response, fallback) == fallback

\* response.statusCode || fallback
StatusOr(response, fallback) ==
    IF response.statusCode = 0 THEN fallback ELSE response.statusCode

\* .on(`response`, response => res.writeHead(response.statusCode || 200, response.headers))
ProxyResponse(r) ==
    /\ alive
    /\ pc[r] = "proxying"
    /\ \E response \in UpstreamResponses :
          /\ upstream' = [upstream EXCEPT ![r] = Emitted("response", response)]
          /\ WriteHead(r, StatusOr(response, 200), response.headers)
    /\ pc' = [pc EXCEPT ![r] = "done"]
    /\ UNCHANGED <<env, proxy, pages, composer, req, owner, outbound, jobs,
                   emitted, timer, alive>>
    /\ UNCHANGED decodeVars

\* .on(`error`, (err, _, response) => ...): the response's head when the
\* error carries one, res.sendStatus(500) otherwise
ProxyError(r) ==
    /\ alive
    /\ pc[r] = "proxying"
    /\ \E response \in UpstreamResponses \cup {TransportFailure} :
          /\ upstream' = [upstream EXCEPT ![r] = Emitted("error", response)]
          /\ IF response.hasResponse
             THEN WriteHead(r, StatusOr(response, 400), response.headers)
             ELSE Respond(r, 500, "status")
    /\ pc' = [pc EXCEPT ![r] = "done"]
    /\ UNCHANGED <<env, proxy, pages, composer, req, owner, outbound, jobs,
                   emitted, timer, alive>>
    /\ UNCHANGED decodeVars

\* app.use(/.*\.hot-update\.json$/i, (_, res) => res.status(404).end())
HotUpdateGuard(r) ==
    /\ \E rq \in Requests : Takes(r, rq, "hotUpdate")
    /\ Respond(r, 404, "empty")
    /\ pc' = [pc EXCEPT ![r] = "done"]
    /\ UNCHANGED <<env, proxy, pages, composer, outbound, jobs, emitted,
                   timer, upstream, alive>>
    /\ UNCHANGED decodeVars

\* a job for the request's path and the path before it in the page set
RenderPathsBatched(rq) == <<About, rq.path>>

\* renderHTML({ ..., paths: [req.path], ... }): the paths of the job
RenderPaths(rq) == <<rq.path>>

\* the render middleware up to its await: pages.has(req.path), the activity
\* timer is started and one job is handed to renderHTML
RenderStart(r) ==
    /\ \E rq \in Requests :
          /\ Takes(r, rq, "render")
          /\ jobs' = [jobs EXCEPT ![r] = Append(@, RenderPaths(rq))]
    /\ timer' = [timer EXCEPT ![r] = "started"]
    /\ pc' = [pc EXCEPT ![r] = "rendering"]
    /\ UNCHANGED <<env, proxy, pages, composer, res, outbound, emitted,
                   upstream, alive>>
    /\ UNCHANGED decodeVars

\* renderHTML resolves: res.status(200).send(response); htmlActivity.end()
RenderReturn(r) ==
    /\ alive
    /\ pc[r] = "rendering"
    /\ Respond(r, 200, "markup")
    /\ timer' = [timer EXCEPT ![r] = "ended"]
    /\ pc' = [pc EXCEPT ![r] = "done"]
    /\ UNCHANGED <<env, proxy, pages, composer, req, owner, outbound, jobs,
                   emitted, upstream, alive>>
    /\ UNCHANGED decodeVars

\* renderHTML rejects: the catch block.  When parseError returns, the 500 page
\* is sent and the timer ended; when parseError raises, the async handler is
\* left with a rejected promise: nothing is sent and the timer is not ended
RenderRaise(r) ==
    /\ alive
    /\ pc[r] = "rendering"
    /\ \E e \in RenderFailures :
          IF parseError(e).raised = "none"
          THEN /\ Respond(r, 500, "diagnostic")
               /\ timer' = [timer EXCEPT ![r] = "ended"]
               /\ pc' = [pc EXCEPT ![r] = "done"]
          ELSE /\ pc' = [pc EXCEPT ![r] = "rejected"]
               /\ UNCHANGED <<res, timer>>
    /\ UNCHANGED <<env, proxy, pages, composer, req, owner, outbound, jobs,
                   emitted, upstream, alive>>
    /\ UNCHANGED decodeVars

\* app.use(developStatic(`public`, { index: false })), then express's final 404
StaticFallback(r) ==
    /\ \E rq \in Requests :
          /\ Takes(r, rq, "static")
          /\ IF rq.method = "GET" /\ rq.path \in PublicFiles
             THEN Respond(r, 200, "file")
             ELSE Respond(r, 404, "notfound")
    /\ pc' = [pc EXCEPT ![r] = "done"]
    /\ UNCHANGED <<env, proxy, pages, composer, outbound, jobs, emitted,
                   timer, upstream, alive>>
    /\ UNCHANGED decodeVars

\* the rejected promise of the async middleware is handled nowhere: the
\* runtime either reports it and carries on, or ends the process
Terminate ==
    /\ alive
    /\ \E r \in Reqs : pc[r] = "rejected"
    /\ alive' = FALSE
    /\ UNCHANGED <<env, proxy, pages, composer, req, pc, owner, res, outbound,
                   upstream, jobs, emitted, timer>>
    /\ UNCHANGED decodeVars

\* the build layer adds a page to store.getState().pages
AddPage ==
    /\ alive
    /\ \E p \in PagePaths \ pages : pages' = pages \cup {p}
    /\ UNCHANGED <<env, proxy, composer, req, pc, owner, res, outbound, jobs,
                   emitted, timer, upstream, alive>>
    /\ UNCHANGED decodeVars

\* the build layer removes a page
RemovePage ==
    /\ alive
    /\ \E p \in PagePaths \cap pages : pages' = pages \ {p}
    /\ UNCHANGED <<env, proxy, composer, req, pc, owner, res, outbound, jobs,
                   emitted, timer, upstream, alive>>
    /\ UNCHANGED decodeVars

\* the schema builder stores the composer in schemaCustomization
CreateComposer ==
    /\ alive
    /\ ~composer
    /\ composer' = TRUE
    /\ UNCHANGED <<env, proxy, pages, req, pc, owner, res, outbound, jobs,
                   emitted, timer, upstream, alive>>
    /\ UNCHANGED decodeVars

----------------------------------------------------------------------------
(* Specifications *)

IdleServer ==
    /\ req = [r \in Reqs |-> NoRequest]
    /\ pc = [r \in Reqs |-> "idle"]
    /\ owner = [r \in Reqs |-> "none"]
    /\ res = [r \in Reqs |-> NoResponse]
    /\ outbound = [r \in Reqs |-> <<>>]
    /\ upstream = [r \in Reqs |-> NoUpstream]
    /\ jobs = [r \in Reqs |-> <<>>]
    /\ emitted = [r \in Reqs |-> 0]
    /\ timer = [r \in Reqs |-> "none"]
    /\ alive = TRUE

\* the server as startServer returns it
Init ==
    /\ env \in Environments
    /\ proxy = ProxyRules
    /\ pages = InitialPages
    /\ composer = FALSE
    /\ IdleServer
    /\ err = NoFailure
    /\ position = <<>>
    /\ diag = <<>>

Next ==
    \/ \E r \in Reqs :
          \/ GraphiqlExplorer(r)
          \/ DataApi(r)
          \/ WebhookRefresh(r)
          \/ EditorLaunch(r)
          \/ ProxyForward(r)
          \/ ProxyResponse(r)
          \/ ProxyError(r)
          \/ HotUpdateGuard(r)
          \/ RenderStart(r)
          \/ RenderReturn(r)
          \/ RenderRaise(r)
          \/ StaticFallback(r)
    \/ Terminate
    \/ AddPage
    \/ RemovePage
    \/ CreateComposer

Spec == Init /\ [][Next]_vars

\* a failure object handed to the diagnostics, the server left idle
InitDecode ==
    /\ err \in Failures
    /\ position = <<>>
    /\ diag = <<>>
    /\ env = [enableRefresh |-> EnvUnset, refreshToken |-> EnvUnset]
    /\ proxy = ProxyRules
    /\ pages = InitialPages
    /\ composer = FALSE
    /\ IdleServer

NextDecode == DecodePosition \/ BuildDiagnostic

SpecDecode == InitDecode /\ [][NextDecode]_vars

----------------------------------------------------------------------------
(* Properties of the decoding, checked under SpecDecode *)

Sentinel == [filename |-> <<>>, line |-> Num(0), row |-> Num(0)]

\* a line ending in a parenthesized segment: "(", one character or more, ")"
EndsParenthesized(l) ==
    /\ Len(l) >= 3
    /\ l[Len(l)] = ")"
    /\ \E i \in 1..(Len(l) - 2) : l[i] = "("

NoParenthesizedLine(ls) == \A i \in 1..Len(ls) : ~EndsParenthesized(ls[i])

IsNumeral(t) == Len(t) >= 1 /\ \A i \in 1..Len(t) : t[i] \in Digits

\* the text between the last "(" of the line and the ")" ending it
LastSegment(l) ==
    LET open == CHOOSE i \in 1..Len(l) :
                    l[i] = "(" /\ \A j \in (i + 1)..Len(l) : l[j] # "("
    IN  SubSeq(l, open + 1, Len(l) - 1)

\* a line of the shape ...(file:line:col)
IsSiteLine(l) ==
    /\ EndsParenthesized(l)
    /\ LET t == Split(LastSegment(l), ":")
       IN  /\ Len(t) = 3
           /\ Len(t[1]) >= 1
           /\ IsNumeral(t[2])
           /\ IsNumeral(t[3])

\* the position written in a site line
SitePosition(l) ==
    LET t == Split(LastSegment(l), ":")
    IN  [filename |-> t[1], line |-> Num(DecimalValue(t[2])),
         row |-> Num(DecimalValue(t[3]))]

FirstSiteLine(ls) ==
    ls[CHOOSE i \in 1..Len(ls) :
           IsSiteLine(ls[i]) /\ \A j \in 1..(i - 1) : ~IsSiteLine(ls[j])]

\* the position decoded from the stack of the failure, once decoded
Decoded == position[1]

\* C2 (as stated): parseError never raises and returns a diagnostic: without a
\* readable file, code and excerpt are absent and message and raw stack are
\* kept; with a readable file and a position inside it, both are present.
C2_ParseErrorNeverRaises ==
    diag # <<>> =>
        /\ diag[1].raised = "none"
        /\ (/\ diag[1].code
            /\ ~Decoded.line.nan
            /\ Decoded.line.n \in 1..SourceLines) => diag[1].codeFrame.marked
        /\ (~diag[1].code) =>
              (/\ ~diag[1].codeFrame.marked
               /\ diag[1].message = LastMessageLine(err.message)
               /\ diag[1].stack = (IF Truthy(err.stack) THEN err.stack ELSE <<>>))

C9_FirstSiteLineDecoded ==
    (position # <<>> /\ \E i \in 1..Len(StackLines(err)) : IsSiteLine(StackLines(err)[i])) =>
        Decoded = SitePosition(FirstSiteLine(StackLines(err)))

\* C10 (as stated): the excerpt marks the decoded line (the second-to-last
\* token) and the decoded column (the last token).
C10_ExcerptMarksDecodedPosition ==
    (/\ diag # <<>>
     /\ diag[1].raised = "none"
     /\ diag[1].codeFrame.marked
     /\ ~Decoded.line.nan
     /\ ~Decoded.row.nan) =>
        /\ diag[1].codeFrame.line = Decoded.line.n
        /\ diag[1].codeFrame.column = Decoded.row.n

----------------------------------------------------------------------------
(* Properties of the middleware chain, checked under Spec *)

\* the request of slot r has left the router
Handled(r) == pc[r] # "idle"

\* the handling of slot r has come to its end: answered, or abandoned
Ended(r) == pc[r] \in {"done", "rejected"}

MatchesSomeRule(path) == \E i \in 1..Len(proxy) : RuleMatches(proxy[i], path)

\* the first handler of the given order that takes the request
FirstTaker(order, rq) ==
    order[CHOOSE i \in 1..Len(order) :
              /\ Matches(order[i], rq)
              /\ \A j \in 1..(i - 1) : ~Matches(order[j], rq)]

\* the router hands the request of slot r to a handler in this step
Dispatched(r) == pc[r] = "idle" /\ pc'[r] # "idle"

\* C1 (as stated): once the render call of a request claimed by the render
\* handler has returned or raised, the request has its response: 200 with the
\* markup, or 500 with the diagnostic page.
C1_RenderAlwaysAnswers ==
    \A r \in Reqs :
        (owner[r] = "render" /\ Ended(r)) =>
            \/ res[r].status = 200 /\ res[r].body = "markup"
            \/ res[r].status = 500 /\ res[r].body = "diagnostic"

\* C3: a request matching a proxy rule whose path is also a known page is
\* claimed by the proxy handler and forwarded upstream; no render job is
\* submitted for it and the render handler's timer is never started.
C3_ProxyBeforeRender ==
    \A r \in Reqs :
        (Handled(r) /\ MatchesSomeRule(req[r].path) /\ req[r].path \in pages) =>
            /\ owner[r] = "proxy"
            /\ Len(outbound[r]) = 1
            /\ outbound[r][1].url = "http://upstream.test"
            /\ jobs[r] = <<>>
            /\ timer[r] = "none"

\* a proxied request for a known page has been answered from upstream
C3_Witness ==
    \E r \in Reqs :
        /\ pc[r] = "done"
        /\ req[r].path = ApiUsers
        /\ ApiUsers \in pages
        /\ owner[r] = "proxy"
        /\ res[r].body = "upstream"

\* the priority order the claim states
StatedOrder ==
    <<"hotUpdate", "explorer", "graphql", "refresh", "editor", "proxy",
      "render", "static">>

\* the priority order of the amended claim
AmendedOrder ==
    <<"explorer", "graphql", "refresh", "editor", "proxy", "hotUpdate",
      "render", "static">>

\* C4 (as stated): the first matching handler in the order hot-update guard,
\* data API, webhook refresh, editor launch, proxy, render, static fallback
\* owns the response; a hot-update path is answered 404 by the guard.
C4_StatedOrder ==
    [][\A r \in Reqs :
          Dispatched(r) =>
              /\ owner'[r] = FirstTaker(StatedOrder, req'[r])
              /\ HotUpdateMatches(req'[r].path) => res'[r].status = 404]_vars

\* C4 (amended): the first matching handler in the order data API (IDE page,
\* then GraphQL endpoint), webhook refresh, editor launch, proxy, hot-update
\* guard, render, static fallback owns the response; a hot-update path that
\* also matches a proxy rule or the data-API pattern goes to that handler and
\* not to the guard.
C4_RegistrationOrder ==
    [][\A r \in Reqs :
          Dispatched(r) =>
              /\ owner'[r] = FirstTaker(AmendedOrder, req'[r])
              /\ (/\ HotUpdateMatches(req'[r].path)
                  /\ \/ MatchesSomeRule(req'[r].path)
                     \/ GraphqlMountMatches(req'[r].path))
                 => owner'[r] \in {"proxy", "explorer", "graphql"}]_vars

\* a hot-update path under a proxy rule went upstream, and one under the
\* data-API pattern was answered by the data API
C4_Witness ==
    \E r1, r2 \in Reqs :
        /\ HotUpdateMatches(req[r1].path) /\ owner[r1] = "proxy" /\ pc[r1] = "done"
        /\ HotUpdateMatches(req[r2].path) /\ owner[r2] = "graphql" /\ pc[r2] = "done"

IsRefreshPost(rq) == rq.method = "POST" /\ rq.path = <<"__refresh">>

\* C5: every POST to /__refresh is answered 200 with an empty body, whatever
\* the feature flag, the secret and the Authorization header.
C5_RefreshAlways200 ==
    \A r \in Reqs :
        (IsRefreshPost(req[r]) /\ Handled(r)) =>
            /\ pc[r] = "done"
            /\ res[r].status = 200 /\ res[r].body = "empty" /\ res[r].heads = 1

\* with a secret configured, an authorized and an unauthorized POST have both
\* been answered, with the same response
C5_Witness ==
    \E r1, r2 \in Reqs :
        /\ env.refreshToken = "s3cret"
        /\ IsRefreshPost(req[r1]) /\ req[r1].authorization = "s3cret"
        /\ IsRefreshPost(req[r2]) /\ req[r2].authorization = "wrong"
        /\ pc[r1] = "done" /\ pc[r2] = "done"
        /\ res[r1] = res[r2]

\* C6: a handled POST to /__refresh has emitted WEBHOOK_RECEIVED once if the
\* feature is enabled and either no secret is configured or the Authorization
\* header equals the secret, and not at all otherwise.
C6_RefreshSignalGated ==
    \A r \in Reqs :
        (IsRefreshPost(req[r]) /\ Handled(r)) =>
            emitted[r] =
                (IF /\ env.enableRefresh = "true"
                    /\ \/ env.refreshToken = "<unset>"
                       \/ req[r].authorization = env.refreshToken
                 THEN 1 ELSE 0)

\* with the feature enabled, one POST emitted the signal without a secret
\* check failing and another, with a wrong header, did not
C6_Witness ==
    \E r1, r2 \in Reqs :
        /\ env.enableRefresh = "true"
        /\ env.refreshToken = "s3cret"
        /\ IsRefreshPost(req[r1]) /\ emitted[r1] = 1
        /\ IsRefreshPost(req[r2]) /\ req[r2].authorization = "wrong"
        /\ pc[r2] = "done" /\ emitted[r2] = 0

\* last path segments ending in .hot-update.json, in any letter case
HotUpdateManifests == {"foo.hot-update.json", "x.HOT-UPDATE.JSON"}

EarlierThanGuard == {"explorer", "graphql", "refresh", "editor", "proxy"}

\* C7: a request whose path ends in .hot-update.json and that no earlier
\* handler claimed is answered 404 by the hot-update guard; no render job is
\* submitted for it and it is never answered 200.
C7_HotUpdateGuard404 ==
    \A r \in Reqs :
        (/\ Handled(r)
         /\ req[r].path[Len(req[r].path)] \in HotUpdateManifests
         /\ owner[r] \notin EarlierThanGuard) =>
            /\ owner[r] = "hotUpdate"
            /\ res[r].status = 404 /\ res[r].body = "empty" /\ res[r].heads = 1
            /\ jobs[r] = <<>>
            /\ timer[r] = "none"

\* a hot-update path that is a known page has been answered by the guard
C7_Witness ==
    \E r \in Reqs :
        /\ req[r].path = <<"foo.hot-update.json">>
        /\ req[r].path \in pages
        /\ owner[r] = "hotUpdate"
        /\ res[r].status = 404

----------------------------------------------------------------------------
(* One response per request, and the proxy's relay *)

\* C11 (as stated): every request is owned by one handler of the chain, its
\* response head is never written twice, and once its handling has ended the
\* head has been written exactly once.
C11_HeadWrittenOnce ==
    \A r \in Reqs :
        /\ res[r].heads <= 1
        /\ Handled(r) => \E i \in 1..Len(Chain) : owner[r] = Chain[i]
        /\ Ended(r) => res[r].heads = 1

\* C12: a proxied request whose upstream fetch failed without a response
\* object is answered 500; one whose failure carries a response object, and
\* one whose fetch succeeded, is answered with that response's status and
\* headers unchanged.
C12_UpstreamRelayed ==
    \A r \in Reqs :
        (owner[r] = "proxy" /\ pc[r] = "done") =>
            IF upstream[r].hasResponse
            THEN /\ upstream[r].event \in {"response", "error"}
                 /\ res[r].headers = upstream[r].headers
                 /\ upstream[r].statusCode # 0 =>
                        res[r].status = upstream[r].statusCode
            ELSE /\ upstream[r].event = "error"
                 /\ res[r].status = 500

\* one fetch failed without a response and was answered 500, another failed
\* with a 404 response, which was relayed
C12_Witness ==
    \E r1, r2 \in Reqs :
        /\ pc[r1] = "done" /\ upstream[r1].event = "error"
        /\ ~upstream[r1].hasResponse /\ res[r1].status = 500
        /\ pc[r2] = "done" /\ upstream[r2].event = "error"
        /\ upstream[r2].hasResponse /\ upstream[r2].statusCode = 404
        /\ res[r2].status = 404 /\ res[r2].headers = UpstreamHeaders

\* pre is a path prefix of path, with at least one more segment after it
IsProperPrefix(pre, path) ==
    /\ Len(pre) < Len(path)
    /\ \A k \in 1..Len(pre) : pre[k] = path[k]

\* C13: a request claimed by the proxy handler makes exactly one outbound
\* request: to the target of the first configured rule whose prefix matches,
\* followed by the request's own path, with the request's method and its
\* Authorization header unchanged, and without the Host header.
C13_OutboundRequest ==
    \A r \in Reqs :
        (Handled(r) /\ owner[r] = "proxy") =>
            /\ Len(outbound[r]) = 1
            /\ \E i \in 1..Len(ProxyRules) :
                  /\ IsProperPrefix(ProxyRules[i].prefix, req[r].path)
                  /\ \A j \in 1..(i - 1) :
                        ~IsProperPrefix(ProxyRules[j].prefix, req[r].path)
                  /\ outbound[r][1].url = ProxyRules[i].url
            /\ outbound[r][1].path = req[r].path
            /\ outbound[r][1].method = req[r].method
            /\ outbound[r][1].authorization = req[r].authorization
            /\ req[r].host # "<none>"
            /\ outbound[r][1].host = "<none>"

\* a POST below both prefixes went to the first rule's target, and a GET
\* carrying an Authorization header was forwarded with it
C13_Witness ==
    \E r1, r2 \in Reqs :
        /\ req[r1].path = <<"api", "users", "x.HOT-UPDATE.JSON">>
        /\ Len(outbound[r1]) = 1
        /\ outbound[r1][1].url = "http://upstream.test"
        /\ outbound[r1][1].method = "POST"
        /\ req[r2].path = <<"api", "users">>
        /\ Len(outbound[r2]) = 1
        /\ outbound[r2][1].method = "GET"
        /\ outbound[r2][1].authorization = "s3cret"

----------------------------------------------------------------------------
(* Render jobs, failures and concurrent requests *)

\* C14: a request claimed by the render handler has submitted exactly one
\* job, for its own path alone, at every later moment (a failed job is not
\* resubmitted); a request of another handler has submitted none; and the
\* step that answers a rendered request touches no other request, so two
\* requests for one path are each answered from their own job.
C14_OneJobPerRequest ==
    [][\A r \in Reqs :
          /\ owner'[r] = "render" => jobs'[r] = << <<req'[r].path>> >>
          /\ owner'[r] # "render" => jobs'[r] = <<>>
          /\ (owner[r] = "render" /\ res'[r] # res[r]) =>
                \A r2 \in Reqs \ {r} :
                    /\ res'[r2] = res[r2]
                    /\ pc'[r2] = pc[r2]
                    /\ jobs'[r2] = jobs[r2]]_vars

\* two requests for the same page were rendered at once, each with its own
\* job: one was answered with the markup, the other with the error page
C14_Witness ==
    \E r1, r2 \in Reqs :
        /\ req[r1].path = req[r2].path
        /\ jobs[r1] = << <<req[r1].path>> >> /\ jobs[r2] = << <<req[r2].path>> >>
        /\ res[r1].status = 200 /\ res[r1].body = "markup"
        /\ res[r2].status = 500 /\ res[r2].body = "diagnostic"

\* C15 (as stated): while one request is in flight at a suspension point, a
\* failure in the handling of another (the render call raised, whatever the
\* stack and the file it names) leaves the server running, so the request in
\* flight still gets its answer.
C15_FailureIsolated ==
    \A r1, r2 \in Reqs :
        (/\ r1 # r2
         /\ owner[r1] = "render" /\ Ended(r1) /\ res[r1].status # 200
         /\ pc[r2] \in {"rendering", "proxying"}) => alive

\* C16: the data API looks for the schema composer at every request: a
\* request arriving while there is none is answered with the error, one
\* arriving once it exists is answered with data, and the step changes
\* nothing of any other request nor of the server.
C16_ReadinessPerRequest ==
    [][\A r \in Reqs :
          (Dispatched(r) /\ owner'[r] = "graphql") =>
              /\ res'[r].status = (IF composer THEN 200 ELSE 500)
              /\ res'[r].body = (IF composer THEN "data" ELSE "errors")
              /\ pc'[r] = "done"
              /\ composer' = composer /\ alive' = alive
              /\ \A r2 \in Reqs \ {r} :
                    /\ res'[r2] = res[r2]
                    /\ pc'[r2] = pc[r2]
                    /\ owner'[r2] = owner[r2]]_vars

\* a data-API request failed for want of a composer, and a later one was
\* served once the composer existed
C16_Witness ==
    \E r1, r2 \in Reqs :
        /\ owner[r1] = "graphql" /\ res[r1].status = 500 /\ res[r1].body = "errors"
        /\ owner[r2] = "graphql" /\ res[r2].status = 200 /\ res[r2].body = "data"
        /\ composer

----------------------------------------------------------------------------
(* Further properties of the decoding, checked under SpecDecode *)

\* C17 (as stated): for every stack, the decoded position has a string as
\* filename and integers not below 0 as line and column.
C17_PositionWellTyped ==
    position # <<>> =>
        /\ Decoded.filename # Undefined
        /\ ~Decoded.line.nan /\ Decoded.line.n >= 0
        /\ ~Decoded.row.nan /\ Decoded.row.n >= 0

\* the text after the last newline of a message; the empty string for an
\* absent message
FinalLine(m) ==
    IF m = Undefined THEN <<>>
    ELSE LET breaks == {i \in 1..Len(m) : m[i] = "\n"}
             from == IF breaks = {} THEN 1
                     ELSE 1 + CHOOSE i \in breaks : \A k \in breaks : k <= i
         IN  [k \in 1..(Len(m) - from + 1) |-> m[from + k - 1]]

\* C18: the message of a diagnostic is the last line of the failure's
\* message: the whole of a one-line message, the final line of a longer one,
\* and the empty string for an absent one.
C18_LastMessageLine ==
    (diag # <<>> /\ diag[1].raised = "none") =>
        diag[1].message = FinalLine(err.message)

\* a diagnostic was built for a two-line message and carries its second line
C18_Witness ==
    /\ diag # <<>>
    /\ diag[1].raised = "none"
    /\ err.message = <<"a", "\n", "1">>
    /\ diag[1].message = <<"1">>

\* C19 (as stated): a request that no earlier handler claimed is claimed by
\* the render handler exactly when its path is in the page set at that
\* moment, and then submits its job; otherwise it submits none, starts no
\* timer and goes to the static fallback.  A request whose path left the page
\* set while its render call was in flight is still answered from that call,
\* 200 with the markup or 500.
C19_MembershipAtDispatch ==
    [][\A r \in Reqs :
          /\ (Dispatched(r) /\ owner'[r] \in {"render", "static"}) =>
                /\ owner'[r] = "render" <=> req'[r].path \in pages
                /\ owner'[r] = "render" =>
                      jobs'[r] = << <<req'[r].path>> >> /\ pc'[r] = "rendering"
                /\ owner'[r] = "static" =>
                      jobs'[r] = <<>> /\ timer'[r] = "none" /\ pc'[r] = "done"
          /\ (/\ pc[r] = "rendering" /\ pc'[r] # "rendering"
              /\ req[r].path \notin pages) =>
                \/ res'[r].status = 200 /\ res'[r].body = "markup"
                \/ res'[r].status = 500 /\ res'[r].body = "diagnostic"]_vars

\* C20 (as stated): once the handling of a request has ended, on the success
\* path and on every failure path of the render call, the activity timer the
\* render handler started for it has been ended; and no timer is started for
\* a request the render handler does not claim.
C20_TimerEnded ==
    \A r \in Reqs :
        /\ Ended(r) => timer[r] # "started"
        /\ (Handled(r) /\ owner[r] # "render") => timer[r] = "none"

====
